---- MODULE Spec2Model ----
(***************************************************************************)
(* Model of the calculator's expression evaluator (src/mini-os.py and the  *)
(* identical copy in src/cal.py): eval_expr with its nested helpers, the   *)
(* conversions _to_decimal / _to_fraction, and the Python numeric types    *)
(* the evaluator computes with (float, int, Fraction, Decimal); of         *)
(* auto_detect_mode on texts; and of the calculator window of src/cal.py   *)
(* with its history (calculate, the history listbox, the double click).    *)
(*                                                                         *)
(* Numbers are kept exact: a rational is a pair n/d in lowest terms, a     *)
(* Decimal is sign/coefficient/exponent, a float is the dyadic rational it *)
(* denotes.  The widths are scaled so that every intermediate fits the     *)
(* model checker's integers: the float significand has MantBits bits       *)
(* (53 in CPython) and the process-wide decimal context has DefaultPrec    *)
(* digits (28 in CPython).                                                 *)
(***************************************************************************)
EXTENDS Integers, Sequences, FiniteSets, TLC

\* ------------------------------------------------------------------ bounds
MantBits == 4
DefaultPrec == 4
MaxPrec == 3
MaxInt == 3

\* the longest text given to auto_detect_mode
MaxTextLen == 4

\* ------------------------------------------------------- integer helpers
IAbs(x) == IF x < 0 THEN -x ELSE x

RECURSIVE Gcd(_, _)
Gcd(a, b) == IF b = 0 THEN a ELSE Gcd(b, a % b)

RECURSIVE IPow(_, _)
IPow(b, k) == IF k = 0 THEN 1 ELSE b * IPow(b, k - 1)

\* floor(n / d) for d > 0
IFloor(n, d) == n \div d

\* n / d rounded to the nearest integer, ties to even (n >= 0, d > 0)
RoundHalfEven(n, d) ==
    LET q == n \div d
        r == n % d
    IN  IF 2 * r < d THEN q
        ELSE IF 2 * r > d THEN q + 1
        ELSE IF q % 2 = 0 THEN q ELSE q + 1

RECURSIVE NumDigits(_)
NumDigits(c) == IF c < 10 THEN 1 ELSE 1 + NumDigits(c \div 10)

\* --------------------------------------------------------------- rationals
\* n/d in lowest terms with d > 0
Q(n, d) ==
    LET g == Gcd(IAbs(n), IAbs(d))
        s == IF d < 0 THEN -1 ELSE 1
    IN  [n |-> s * (n \div g), d |-> s * (d \div g)]

QAdd(a, b) == Q(a.n * b.d + b.n * a.d, a.d * b.d)

QSub(a, b) == Q(a.n * b.d - b.n * a.d, a.d * b.d)

QMul(a, b) == Q(a.n * b.n, a.d * b.d)

\* b.n # 0
QDiv(a, b) == Q(a.n * b.d, a.d * b.n)

QNeg(a) == [n |-> -a.n, d |-> a.d]

QLess(a, b) == a.n * b.d < b.n * a.d

QFloor(a) == IFloor(a.n, a.d)

\* integer part, rounded toward zero
QTrunc(a) == IF a.n >= 0 THEN a.n \div a.d ELSE -((-a.n) \div a.d)

\* a ** k for an integer k (a.n # 0 when k < 0)
QPowInt(a, k) ==
    IF k >= 0 THEN Q(IPow(a.n, k), IPow(a.d, k))
    ELSE Q(IPow(a.d, -k), IPow(a.n, -k))

QIsInt(a) == a.d = 1

\* ------------------------------------------------------ values and results
\* Python values the evaluator handles.  A float or Decimal produced by an
\* irrational operation (a transcendental function, a power with a
\* non-integer exponent) keeps its type but not its numeric value: irr.
IntV(k) == [t |-> "int", n |-> k, d |-> 1]

BoolV(b) == [t |-> "bool", n |-> IF b THEN 1 ELSE 0, d |-> 1]

StrV == [t |-> "str"]

\* the string a mode is named by
ModeStr(m) == [t |-> "str", s |-> m]

FracV(q) == [t |-> "Fraction", n |-> q.n, d |-> q.d]

FloatV(q) == [t |-> "float", irr |-> FALSE, n |-> q.n, d |-> q.d]

FloatIrr == [t |-> "float", irr |-> TRUE]

ComplexV == [t |-> "complex"]

DecV(sign, coef, exp) ==
    [t |-> "Decimal", sp |-> "fin", sign |-> sign, coef |-> coef, exp |-> exp]

DecIrr(k) == [t |-> "Decimal", sp |-> "irr", digits |-> k]

DecInf(sign) == [t |-> "Decimal", sp |-> "inf", sign |-> sign]

\* the outcome of a Python call: a returned value or a raised exception
Ok(v) == [ok |-> TRUE, v |-> v]

Raise(exc, msg) == [ok |-> FALSE, exc |-> exc, msg |-> msg]

IsExactNum(v) ==
    \/ v.t \in {"int", "bool", "Fraction"}
    \/ v.t = "float" /\ ~v.irr

\* the rational an int, bool, Fraction or tracked float denotes
QOf(v) == [n |-> v.n, d |-> v.d]

\* ------------------------------------------------------------- float model
\* Round the rational n/d > 0 to MantBits significant bits, ties to even:
\* scale the significand into [2^(MantBits-1), 2^MantBits), round it, scale back.
RECURSIVE FloatNorm(_, _, _)
FloatNorm(n, d, e) ==
    IF n \div d < IPow(2, MantBits - 1)
    THEN IF d % 2 = 0 THEN FloatNorm(n, d \div 2, e - 1) ELSE FloatNorm(2 * n, d, e - 1)
    ELSE IF n \div d >= IPow(2, MantBits)
    THEN IF n % 2 = 0 THEN FloatNorm(n \div 2, d, e + 1) ELSE FloatNorm(n, 2 * d, e + 1)
    ELSE LET m == RoundHalfEven(n, d)
         IN  IF e >= 0 THEN Q(m * IPow(2, e), 1) ELSE Q(m, IPow(2, -e))

\* the float nearest to the rational q (CPython: float(numerator / denominator))
FloatRound(q) ==
    IF q.n = 0 THEN Q(0, 1)
    ELSE IF q.n > 0 THEN FloatNorm(q.n, q.d, 0)
    ELSE QNeg(FloatNorm(-q.n, q.d, 0))

\* number of significant decimal digits repr() may need for a float
ReprDigits == 1 + (MantBits * 30103 + 99999) \div 100000

\* floor(q * 10^s) for the scale s that leaves exactly k digits (q > 0):
\* <<coefficient, exponent>> with coefficient * 10^exponent <= q
RECURSIVE DecScale(_, _, _, _)
DecScale(n, d, k, e) ==
    IF n < IPow(10, k - 1) * d THEN DecScale(10 * n, d, k, e - 1)
    ELSE IF n >= IPow(10, k) * d THEN DecScale(n, 10 * d, k, e + 1)
    ELSE <<n \div d, e>>

\* c * 10^e as a rational
QTen(c, e) == IF e >= 0 THEN Q(c * IPow(10, e), 1) ELSE Q(c, IPow(10, -e))

QAbs(q) == [n |-> IAbs(q.n), d |-> q.d]

\* repr(float): the shortest decimal <<coefficient, exponent>> that reads
\* back as the same float, the closest to x among those of that length
RECURSIVE ShortestRepr(_, _)
ShortestRepr(x, k) ==
    LET lo == DecScale(x.n, x.d, k, 0)
        cands == {<<lo[1], lo[2]>>, <<lo[1] + 1, lo[2]>>}
        good == {c \in cands : FloatRound(QTen(c[1], c[2])) = x}
        dist(c) == QAbs(QSub(QTen(c[1], c[2]), x))
    IN  IF good # {}
        THEN CHOOSE c \in good : \A o \in good : ~QLess(dist(o), dist(c))
        ELSE ShortestRepr(x, k + 1)

\* strip trailing zeros of a coefficient
RECURSIVE StripZeros(_, _)
StripZeros(c, e) ==
    IF c # 0 /\ c % 10 = 0 THEN StripZeros(c \div 10, e + 1) ELSE <<c, e>>

\* Decimal(repr(f)) for a float f: repr always shows a fractional part
\* ("2.0"), so an integral float yields exponent -1
DecimalOfRepr(f) ==
    IF f.irr THEN DecIrr(ReprDigits)
    ELSE IF f.n = 0 THEN DecV(0, 0, -1)
    ELSE LET r == ShortestRepr(QAbs(QOf(f)), 1)
             s == StripZeros(r[1], r[2])
             sg == IF f.n < 0 THEN 1 ELSE 0
         IN  IF s[2] >= 0 THEN DecV(sg, s[1] * IPow(10, s[2] + 1), -1)
             ELSE DecV(sg, s[1], s[2])

\* ----------------------------------------------------------- Decimal model
\* Arithmetic of decimal.Decimal under a context of P significant digits,
\* rounding ROUND_HALF_EVEN, with the traps of the default context
\* (InvalidOperation, DivisionByZero, Overflow raise).
DecRound(sign, coef, exp, P) ==
    LET k == NumDigits(coef) - P
    IN  IF coef = 0 \/ k <= 0 THEN DecV(sign, coef, exp)
        ELSE LET c == RoundHalfEven(coef, IPow(10, k))
             IN  IF c = IPow(10, P) THEN DecV(sign, IPow(10, P - 1), exp + k + 1)
                 ELSE DecV(sign, c, exp + k)

\* the rational a finite Decimal denotes
DecQ(a) ==
    LET q == QTen(a.coef, a.exp)
    IN  IF a.sign = 1 THEN QNeg(q) ELSE q

DecIsZero(a) == a.sp = "fin" /\ a.coef = 0

IMin(a, b) == IF a < b THEN a ELSE b

DecAdd(a, b, P) ==
    LET e == IMin(a.exp, b.exp)
        sa == IF a.sign = 1 THEN -1 ELSE 1
        sb == IF b.sign = 1 THEN -1 ELSE 1
        sum == sa * a.coef * IPow(10, a.exp - e) + sb * b.coef * IPow(10, b.exp - e)
        sg == IF sum < 0 THEN 1
              ELSE IF sum = 0 /\ a.sign = 1 /\ b.sign = 1 THEN 1 ELSE 0
    IN  Ok(DecRound(sg, IAbs(sum), e, P))

DecFlip(a) == [a EXCEPT !.sign = 1 - a.sign]

DecSub(a, b, P) == DecAdd(a, DecFlip(b), P)

DecMul(a, b, P) ==
    Ok(DecRound((a.sign + b.sign) % 2, a.coef * b.coef, a.exp + b.exp, P))

\* digits of num / den at exponent e, by long division: the quotient q and
\* the remainder r take one more digit until the quotient is exact or has
\* P + 1 digits; a remainder left over makes the last digit sticky
RECURSIVE DecDivLoop(_, _, _, _, _, _)
DecDivLoop(sg, q, r, den, e, P) ==
    IF r = 0 THEN DecRound(sg, q, e, P)
    ELSE IF q # 0 /\ NumDigits(q) > P
         THEN DecRound(sg, IF q % 5 = 0 THEN q + 1 ELSE q, e, P)
    ELSE DecDivLoop(sg, 10 * q + (10 * r) \div den, (10 * r) % den, den, e - 1, P)

DecDiv(a, b, P) ==
    IF b.coef = 0
    THEN IF a.coef = 0 THEN Raise("InvalidOperation", "DivisionUndefined")
         ELSE Raise("DivisionByZero", "DivisionByZero")
    ELSE Ok(DecDivLoop((a.sign + b.sign) % 2, a.coef \div b.coef, a.coef % b.coef,
                       b.coef, a.exp - b.exp, P))

\* |a| / |b| as a rational (b # 0)
DecAbsQuot(a, b) == QDiv(QTen(a.coef, a.exp), QTen(b.coef, b.exp))

DecFloorDiv(a, b, P) ==
    IF b.coef = 0
    THEN IF a.coef = 0 THEN Raise("InvalidOperation", "DivisionUndefined")
         ELSE Raise("DivisionByZero", "DivisionByZero")
    ELSE Ok(DecV((a.sign + b.sign) % 2, QTrunc(DecAbsQuot(a, b)), 0))

\* the remainder takes the sign of the dividend (truncated division)
DecMod(a, b, P) ==
    IF b.coef = 0
    THEN IF a.coef = 0 THEN Raise("InvalidOperation", "DivisionUndefined")
         ELSE Raise("InvalidOperation", "InvalidOperation")
    ELSE LET e == IMin(a.exp, b.exp)
             ca == a.coef * IPow(10, a.exp - e)
             cb == b.coef * IPow(10, b.exp - e)
         IN  Ok(DecRound(a.sign, ca % cb, e, P))

DecIsIntegral(a) == a.exp >= 0 \/ a.coef % IPow(10, -a.exp) = 0

\* int(a) for an integral finite Decimal
DecToInt(a) == QTrunc(DecQ(a))

\* a ** k for an int k
DecPowInt(a, k, P) ==
    LET sg == IF k % 2 = 1 THEN a.sign ELSE 0
    IN  IF a.coef = 0
        THEN IF k = 0 THEN Raise("InvalidOperation", "0 ** 0")
             ELSE IF k < 0 THEN Ok(DecInf(sg))
             ELSE Ok(DecV(sg, 0, a.exp * k))
        ELSE IF k >= 0 THEN Ok(DecRound(sg, IPow(a.coef, k), a.exp * k, P))
        ELSE Ok(DecDivLoop(sg, 1 \div IPow(a.coef, -k), 1 % IPow(a.coef, -k),
                           IPow(a.coef, -k), -(a.exp * (-k)), P))

DecPow(a, b, P) ==
    IF DecIsIntegral(b) THEN DecPowInt(a, DecToInt(b), P)
    ELSE IF a.coef = 0
         THEN IF b.sign = 1 THEN Ok(DecInf(0)) ELSE Ok(DecV(0, 0, 0))
    ELSE IF a.sign = 1 THEN Raise("InvalidOperation", "InvalidOperation")
    ELSE Ok(DecIrr(P))

\* -a: a zero loses its sign, the result is rounded to the context
DecNeg(a, P) ==
    IF a.coef = 0 THEN DecV(0, 0, a.exp)
    ELSE DecRound(1 - a.sign, a.coef, a.exp, P)

DecLess(a, b) == QLess(DecQ(a), DecQ(b))

\* floor(sqrt(c)) by bisection on lo..hi, lo^2 <= c < (hi+1)^2
RECURSIVE ISqrt(_, _, _)
ISqrt(c, lo, hi) ==
    IF lo >= hi THEN lo
    ELSE LET mid == (lo + hi + 1) \div 2
         IN  IF mid * mid <= c THEN ISqrt(c, mid, hi) ELSE ISqrt(c, lo, mid - 1)

ISqrtOf(c) == ISqrt(c, 0, IMin(c, 46340))

\* sqrt of c * 10^e (e even, c not a perfect square) to p digits, digit by
\* digit: s is floor(sqrt(c)) and rem is c - s^2
RECURSIVE DecSqrtLoop(_, _, _, _)
DecSqrtLoop(s, rem, e, p) ==
    IF NumDigits(s) >= p /\ s > 0
    THEN DecV(0, IF rem > s THEN s + 1 ELSE s, e \div 2)
    ELSE LET d == CHOOSE x \in 0..9 :
                      /\ (20 * s + x) * x <= 100 * rem
                      /\ x = 9 \/ (20 * s + x + 1) * (x + 1) > 100 * rem
         IN  DecSqrtLoop(10 * s + d, 100 * rem - (20 * s + d) * d, e - 2, p)

\* Context(prec=p).sqrt(a), for coefficients of at most p digits
CtxSqrt(a, p) ==
    IF a.sp # "fin" THEN Ok(a)
    ELSE IF a.coef = 0 THEN Ok(DecV(a.sign, 0, a.exp \div 2))
    ELSE IF a.sign = 1 THEN Raise("InvalidOperation", "InvalidOperation")
    ELSE LET c == IF a.exp % 2 = 0 THEN a.coef ELSE 10 * a.coef
             e == IF a.exp % 2 = 0 THEN a.exp ELSE a.exp - 1
             s == ISqrtOf(c)
         IN  IF s * s = c THEN Ok(DecRound(0, s, e \div 2, p))
             ELSE Ok(DecSqrtLoop(s, c - s * s, e, p))

\* significant digits of a Decimal
DecDigits(a) ==
    IF a.sp = "irr" THEN a.digits
    ELSE IF a.sp = "inf" THEN 0
    ELSE NumDigits(a.coef)

\* ------------------------------------------------- Python's numeric operators
ZDE(msg) == Raise("ZeroDivisionError", msg)

\* x ** y on floats (math.pow agrees with it wherever it returns)
FloatPow(x, y) ==
    IF QIsInt(y)
    THEN IF x.n = 0 /\ y.n < 0 THEN ZDE("0.0 cannot be raised to a negative power")
         ELSE Ok(FloatV(FloatRound(QPowInt(x, y.n))))
    ELSE IF x.n = 0
         THEN IF y.n < 0 THEN ZDE("0.0 cannot be raised to a negative power")
              ELSE Ok(FloatV(Q(0, 1)))
    ELSE IF x.n < 0 THEN Ok(ComplexV)
    ELSE IF x = Q(1, 1) THEN Ok(FloatV(Q(1, 1)))
    ELSE Ok(FloatIrr)

\* a float operator on two tracked floats x, y (rationals)
FloatOp(op, x, y) ==
    CASE op = "Add" -> Ok(FloatV(FloatRound(QAdd(x, y))))
      [] op = "Sub" -> Ok(FloatV(FloatRound(QSub(x, y))))
      [] op = "Mult" -> Ok(FloatV(FloatRound(QMul(x, y))))
      [] op = "Div" ->
            IF y.n = 0 THEN ZDE("float division by zero")
            ELSE Ok(FloatV(FloatRound(QDiv(x, y))))
      [] op = "FloorDiv" ->
            IF y.n = 0 THEN ZDE("float floor division by zero")
            ELSE Ok(FloatV(FloatRound(Q(QFloor(QDiv(x, y)), 1))))
      [] op = "Mod" ->
            IF y.n = 0 THEN ZDE("float modulo")
            ELSE Ok(FloatV(FloatRound(
                     QSub(x, QMul(y, Q(QFloor(QDiv(x, y)), 1))))))
      [] op = "Pow" -> FloatPow(x, y)

\* float(v) for an int, Fraction or float operand
AsFloat(v) == IF v.t = "float" THEN v ELSE FloatV(FloatRound(QOf(v)))

\* an operator with at least one float operand (the other int or Fraction)
FloatBinOp(op, l, r) ==
    LET x == AsFloat(l)
        y == AsFloat(r)
    IN  IF ~x.irr /\ ~y.irr THEN FloatOp(op, QOf(x), QOf(y))
        ELSE IF op \in {"Div", "FloorDiv", "Mod"} /\ ~y.irr /\ y.n = 0
             THEN ZDE("float division by zero")
        ELSE Ok(FloatIrr)

\* int op int
IntBinOp(op, a, b) ==
    CASE op = "Add" -> Ok(IntV(a + b))
      [] op = "Sub" -> Ok(IntV(a - b))
      [] op = "Mult" -> Ok(IntV(a * b))
      [] op = "Div" ->
            IF b = 0 THEN ZDE("division by zero")
            ELSE Ok(FloatV(FloatRound(Q(a, b))))
      [] op = "FloorDiv" ->
            IF b = 0 THEN ZDE("integer division or modulo by zero")
            ELSE Ok(IntV(QFloor(Q(a, b))))
      [] op = "Mod" ->
            IF b = 0 THEN ZDE("integer modulo by zero")
            ELSE Ok(IntV(a - b * QFloor(Q(a, b))))
      [] op = "Pow" ->
            IF b >= 0 THEN Ok(IntV(IPow(a, b)))
            ELSE FloatPow(Q(a, 1), Q(b, 1))

\* Fraction.__pow__(x, y)
FracPow(x, y) ==
    IF QIsInt(y)
    THEN IF x.n = 0 /\ y.n < 0 THEN ZDE("Fraction(1, 0)")
         ELSE Ok(FracV(QPowInt(x, y.n)))
    ELSE FloatPow(FloatRound(x), FloatRound(y))

\* an operator with at least one Fraction operand (the other int or Fraction)
FracBinOp(op, l, r) ==
    LET x == QOf(l)
        y == QOf(r)
    IN  CASE op = "Add" -> Ok(FracV(QAdd(x, y)))
          [] op = "Sub" -> Ok(FracV(QSub(x, y)))
          [] op = "Mult" -> Ok(FracV(QMul(x, y)))
          [] op = "Div" ->
                IF y.n = 0 THEN ZDE("Fraction(n, 0)")
                ELSE Ok(FracV(QDiv(x, y)))
          [] op = "FloorDiv" ->
                IF y.n = 0 THEN ZDE("integer division or modulo by zero")
                ELSE Ok(IntV(QFloor(QDiv(x, y))))
          [] op = "Mod" ->
                IF y.n = 0 THEN ZDE("integer modulo by zero")
                ELSE Ok(FracV(QSub(x, QMul(y, Q(QFloor(QDiv(x, y)), 1)))))
          [] op = "Pow" ->
                IF l.t = "int" /\ QIsInt(y) /\ y.n >= 0
                THEN Ok(IntV(IPow(x.n, y.n)))
                ELSE FracPow(x, y)

\* Decimal(k) for an int operand of a Decimal operator
AsDecimal(v) ==
    IF v.t = "Decimal" THEN v
    ELSE DecV(IF v.n < 0 THEN 1 ELSE 0, IAbs(v.n), 0)

\* an operator on two finite Decimals under the thread's context (P digits)
DecOp(op, a, b, P) ==
    CASE op = "Add" -> DecAdd(a, b, P)
      [] op = "Sub" -> DecSub(a, b, P)
      [] op = "Mult" -> DecMul(a, b, P)
      [] op = "Div" -> DecDiv(a, b, P)
      [] op = "FloorDiv" -> DecFloorDiv(a, b, P)
      [] op = "Mod" -> DecMod(a, b, P)
      [] op = "Pow" -> DecPow(a, b, P)

\* an operator with at least one Decimal operand.  Decimal mixes with int
\* only; an untracked operand leaves the result untracked.  Operations on an
\* infinite Decimal are outside the modelled inputs.
DecBinOp(op, l, r, P) ==
    IF l.t \notin {"Decimal", "int", "bool"} \/ r.t \notin {"Decimal", "int", "bool"}
    THEN Raise("TypeError", "unsupported operand type(s)")
    ELSE LET a == AsDecimal(l)
             b == AsDecimal(r)
         IN  IF a.sp = "fin" /\ b.sp = "fin" THEN DecOp(op, a, b, P)
             ELSE IF op \in {"Div", "FloorDiv"} /\ DecIsZero(b)
                  THEN Raise("DivisionByZero", "DivisionByZero")
             ELSE IF op = "Mod" /\ DecIsZero(b)
                  THEN Raise("InvalidOperation", "InvalidOperation")
             ELSE Ok(DecIrr(P))

\* an operator with a complex operand
ComplexBinOp(op, l, r) ==
    IF l.t = "Decimal" \/ r.t = "Decimal" \/ op \in {"FloorDiv", "Mod"}
    THEN Raise("TypeError", "unsupported operand type(s)")
    ELSE IF op = "Div" /\ IsExactNum(r) /\ r.n = 0
         THEN ZDE("complex division by zero")
    ELSE Ok(ComplexV)

\* operator.add, sub, mul, truediv, floordiv, mod, pow applied to two values:
\* Python dispatches on the operand types
PyBinOp(op, l, r, P) ==
    IF l.t = "str" \/ r.t = "str" THEN Raise("TypeError", "unsupported operand type(s)")
    ELSE IF l.t = "complex" \/ r.t = "complex" THEN ComplexBinOp(op, l, r)
    ELSE IF l.t = "Decimal" \/ r.t = "Decimal" THEN DecBinOp(op, l, r, P)
    ELSE IF l.t = "float" \/ r.t = "float" THEN FloatBinOp(op, l, r)
    ELSE IF l.t = "Fraction" \/ r.t = "Fraction" THEN FracBinOp(op, l, r)
    ELSE IntBinOp(op, l.n, r.n)

\* operator.neg
PyNeg(v, P) ==
    CASE v.t = "Decimal" -> IF v.sp = "fin" THEN DecNeg(v, P) ELSE v
      [] v.t = "complex" -> v
      [] v.t = "float" -> IF v.irr THEN v ELSE FloatV(QNeg(QOf(v)))
      [] v.t = "Fraction" -> FracV(QNeg(QOf(v)))
      [] OTHER -> IntV(-v.n)

\* ------------------------------------------------------------- conversions
\* _to_decimal(value, ctx): ctx is not used; the division of a Fraction runs
\* under the thread's context (P digits)
_to_decimal(value, P) ==
    CASE value.t = "Decimal" -> Ok(value)
      [] value.t = "Fraction" ->
            DecDiv(AsDecimal(IntV(value.n)), AsDecimal(IntV(value.d)), P)
      [] value.t = "float" -> Ok(DecimalOfRepr(value))
      [] value.t = "int" -> Ok(AsDecimal(value))
      [] OTHER -> Raise("InvalidOperation", "ConversionSyntax")

\* value.as_tuple().digits: the decimal digits of the coefficient
RECURSIVE TupDigits(_)
TupDigits(coef) ==
    IF coef < 10 THEN <<coef>> ELSE Append(TupDigits(coef \div 10), coef % 10)

\* the loop "for d in tup.digits: digits = digits * 10 + d"
RECURSIVE DigitsToInt(_, _)
DigitsToInt(ds, digits) ==
    IF ds = <<>> THEN digits ELSE DigitsToInt(Tail(ds), digits * 10 + Head(ds))

\* _to_fraction(value); tup.sign is not read.  (An untracked value does not
\* reach it in the modelled inputs.)
_to_fraction(value) ==
    CASE value.t = "Fraction" -> Ok(value)
      [] value.t = "Decimal" /\ value.sp = "fin" ->
            LET digits == DigitsToInt(TupDigits(value.coef), 0)
                exp == value.exp
            IN  IF exp >= 0 THEN Ok(FracV(Q(digits * IPow(10, exp), 1)))
                ELSE Ok(FracV(Q(digits, IPow(10, -exp))))
      [] value.t = "Decimal" /\ value.sp = "inf" ->
            Raise("TypeError", "'>=' not supported between 'str' and 'int'")
      [] value.t \in {"int", "bool"} -> Ok(FracV(QOf(value)))
      [] value.t = "float" /\ ~value.irr -> Ok(FracV(QOf(value)))
      [] value.t = "complex" -> Raise("TypeError", "argument should be a string or a Rational")
      [] value.t = "str" -> Raise("ValueError", "Invalid literal for Fraction")

\* ------------------------------------------------------------ module tables
\* keys of OPS (ast operator classes)
OPS == {"Add", "Sub", "Mult", "Div", "FloorDiv", "Mod", "Pow", "USub", "UAdd"}

\* keys of _MATH_FUNCS
_MATH_FUNCS == {"sin", "cos", "tan", "log", "ln", "sqrt", "abs", "max", "min", "pow"}

\* _CONSTS: math.pi and math.e, the floats nearest to pi and e
_CONSTS ==
    [pi |-> FloatV(FloatRound(Q(314159, 100000))),
     e |-> FloatV(FloatRound(Q(271828, 100000)))]

EvalError(msg) == Raise("EvalError", msg)

\* ---------------------------------------------------------- math functions
\* math.sin / cos / tan / log / sqrt / pow on floats: exact where the result
\* is a float known exactly, untracked elsewhere
DomainError == Raise("ValueError", "math domain error")

IsSquare(c) == ISqrtOf(c) * ISqrtOf(c) = c

MathFunc1(name, x) ==
    IF x.irr THEN Ok(FloatIrr)
    ELSE CASE name \in {"sin", "tan"} ->
                 IF x.n = 0 THEN Ok(FloatV(Q(0, 1))) ELSE Ok(FloatIrr)
           [] name = "cos" ->
                 IF x.n = 0 THEN Ok(FloatV(Q(1, 1))) ELSE Ok(FloatIrr)
           [] name \in {"log", "ln"} ->
                 IF x.n <= 0 THEN DomainError
                 ELSE IF x.n = x.d THEN Ok(FloatV(Q(0, 1)))
                 ELSE Ok(FloatIrr)
           [] name = "sqrt" ->
                 IF x.n < 0 THEN DomainError
                 ELSE IF IsSquare(x.n) /\ IsSquare(x.d)
                      THEN Ok(FloatV(Q(ISqrtOf(x.n), ISqrtOf(x.d))))
                 ELSE Ok(FloatIrr)
           [] name = "abs" -> Ok(FloatV(QAbs(QOf(x))))

\* math.log(x, base) = log(x) / log(base)
MathLog2(x, b) ==
    IF x.irr \/ b.irr THEN Ok(FloatIrr)
    ELSE IF x.n <= 0 \/ b.n <= 0 THEN DomainError
    ELSE IF b.n = b.d THEN ZDE("float division by zero")
    ELSE IF x.n = x.d THEN Ok(FloatV(Q(0, 1)))
    ELSE IF x = b THEN Ok(FloatV(Q(1, 1)))
    ELSE Ok(FloatIrr)

\* math.pow(x, y): a ValueError where float ** float gives a complex number
\* or divides by zero
MathPow(x, y) ==
    IF x.irr \/ y.irr THEN Ok(FloatIrr)
    ELSE LET r == FloatPow(QOf(x), QOf(y))
         IN  IF ~r.ok \/ r.v.t = "complex" THEN DomainError ELSE r

\* a < b for two tracked values of the same numeric family
ValLess(a, b) ==
    IF a.t = "Decimal" THEN DecLess(a, b) ELSE QLess(QOf(a), QOf(b))

\* max / min of a non-empty sequence: the first of the extreme elements, as
\* Python's max and min return it
RECURSIVE PyMax(_, _, _)
PyMax(args, i, best) ==
    IF i > Len(args) THEN best
    ELSE PyMax(args, i + 1, IF ValLess(best, args[i]) THEN args[i] ELSE best)

RECURSIVE PyMin(_, _, _)
PyMin(args, i, best) ==
    IF i > Len(args) THEN best
    ELSE PyMin(args, i + 1, IF ValLess(args[i], best) THEN args[i] ELSE best)

\* ------------------------------------------------------------ syntax trees
\* The trees ast.parse(expr, mode="eval") yields.  A numeric literal carries
\* its decimal text c * 10^e; Invalid stands for a text ast.parse rejects.
Num(c) == [k |-> "Constant", kind |-> "int", c |-> c, e |-> 0]

Flt(c, e) == [k |-> "Constant", kind |-> "float", c |-> c, e |-> e]

BoolLit(b) == [k |-> "Constant", kind |-> "bool", c |-> IF b THEN 1 ELSE 0, e |-> 0]

StrLit == [k |-> "Constant", kind |-> "str", c |-> 0, e |-> 0]

Name(id) == [k |-> "Name", id |-> id]

BinOp(op, left, right) == [k |-> "BinOp", op |-> op, left |-> left, right |-> right]

UnaryOp(op, operand) == [k |-> "UnaryOp", op |-> op, operand |-> operand]

\* keywords: the number of keyword arguments of the call
Call(func, args, keywords) ==
    [k |-> "Call", func |-> func, args |-> args, keywords |-> keywords]

ListNode == [k |-> "List"]

Attribute(value) == [k |-> "Attribute", value |-> value]

Invalid == [k |-> "Invalid"]

\* node.value of an ast.Constant: Python reads a literal with a decimal
\* point as the nearest float
ConstantValue(node) ==
    CASE node.kind = "int" -> IntV(node.c)
      [] node.kind = "float" -> FloatV(FloatRound(QTen(node.c, node.e)))
      [] node.kind = "bool" -> BoolV(node.c = 1)
      [] OTHER -> StrV

\* ast.parse(expr, mode="eval")
ast_parse(expr) ==
    IF expr.k = "Invalid" THEN Raise("SyntaxError", "invalid syntax")
    ELSE Ok([k |-> "Expression", body |-> expr])

\* ---------------------------------------------------------------- eval_expr
\* float(a) for a value a
PyFloat(a) ==
    CASE a.t = "complex" -> Raise("TypeError", "float() argument must be a string or a real number")
      [] a.t = "Decimal" ->
            IF a.sp = "fin" THEN Ok(FloatV(FloatRound(DecQ(a)))) ELSE Ok(FloatIrr)
      [] OTHER -> Ok(AsFloat(a))

\* eval_expr.convert_number
convert_number(n, mode, P) ==
    IF mode = "float" THEN Ok(AsFloat(n))
    ELSE IF mode = "fraction" THEN Ok(FracV(QOf(n)))
    ELSE _to_decimal(n, P)

\* eval_expr.convert_const
convert_const(name, mode, P) ==
    IF name \notin DOMAIN _CONSTS THEN EvalError("Unbekannter Name")
    ELSE LET val == _CONSTS[name]
         IN  IF mode = "float" THEN Ok(AsFloat(val))
             ELSE IF mode = "fraction" THEN Ok(FracV(QOf(val)))
             ELSE _to_decimal(val, P)

\* [_to_fraction(a) for a in args[i..]], stopping at the first exception
RECURSIVE FractionAll(_, _, _)
FractionAll(args, i, acc) ==
    IF i > Len(args) THEN Ok(acc)
    ELSE LET r == _to_fraction(args[i])
         IN  IF r.ok THEN FractionAll(args, i + 1, Append(acc, r.v)) ELSE r

\* [float(a) for a in args[i..]], stopping at the first exception
RECURSIVE FloatAll(_, _, _)
FloatAll(args, i, acc) ==
    IF i > Len(args) THEN Ok(acc)
    ELSE LET r == PyFloat(args[i])
         IN  IF r.ok THEN FloatAll(args, i + 1, Append(acc, r.v)) ELSE r

\* _to_decimal(r) of a float result r, an exception passing through
Bridge(r, P) == IF r.ok THEN _to_decimal(r.v, P) ELSE r

IndexError == Raise("IndexError", "tuple index out of range")

\* wrapper(*args), mode == "fraction"
WrapperFraction(name, args) ==
    CASE name = "abs" ->
            IF Len(args) = 0 THEN IndexError
            ELSE LET r == _to_fraction(args[1])
                 IN  IF r.ok THEN Ok(FracV(QAbs(QOf(r.v)))) ELSE r
      [] name \in {"max", "min"} ->
            LET r == FractionAll(args, 1, <<>>)
            IN  IF ~r.ok THEN r
                ELSE IF Len(args) = 0 THEN Raise("ValueError", "arg is an empty sequence")
                ELSE IF name = "max" THEN Ok(PyMax(r.v, 2, r.v[1]))
                ELSE Ok(PyMin(r.v, 2, r.v[1]))
      [] name = "pow" ->
            LET r == FractionAll(SubSeq(args, 1, IMin(Len(args), 3)), 1, <<>>)
            IN  IF ~r.ok THEN r
                ELSE IF Len(args) # 2 THEN Raise("ValueError", "values to unpack (expected 2)")
                ELSE IF r.v[2].d # 1
                     THEN EvalError("pow mit nicht-ganzzahligem Exponenten im Fraction-Modus nicht erlaubt")
                ELSE FracPow(QOf(r.v[1]), Q(r.v[2].n, 1))
      [] OTHER -> EvalError("Funktion nicht im Fraction-Modus unterstuetzt")

\* wrapper(*args), mode == "decimal": ctxprec is ctx.prec, P the precision
\* of the thread's context
WrapperDecimal(name, args, ctxprec, P) ==
    CASE name = "sqrt" ->
            IF Len(args) = 0 THEN IndexError
            ELSE LET r == CtxSqrt(args[1], ctxprec)
                     f == PyFloat(args[1])
                 IN  IF args[1].sp # "irr" /\ r.ok THEN r
                     ELSE IF args[1].sp = "irr" THEN Ok(DecIrr(ctxprec))
                     ELSE IF ~f.ok THEN f
                     ELSE Bridge(MathFunc1("sqrt", f.v), P)
      [] name \in {"log", "ln", "sin", "cos", "tan", "abs"} ->
            IF Len(args) = 0 THEN IndexError
            ELSE LET f == PyFloat(args[1])
                 IN  IF ~f.ok THEN f ELSE Bridge(MathFunc1(name, f.v), P)
      [] name = "pow" ->
            IF Len(args) # 2 THEN Raise("ValueError", "values to unpack (expected 2)")
            ELSE LET a == args[1]
                     b == args[2]
                     fa == PyFloat(a)
                     fb == PyFloat(b)
                 IN  IF b.t = "Decimal" /\ b.sp = "fin" /\ DecIsIntegral(b)
                     THEN PyBinOp("Pow", a, IntV(DecToInt(b)), P)
                     ELSE IF ~fa.ok THEN fa
                     ELSE IF ~fb.ok THEN fb
                     ELSE Bridge(MathPow(fa.v, fb.v), P)
      [] name \in {"max", "min"} ->
            IF Len(args) = 0 THEN Raise("ValueError", "arg is an empty sequence")
            ELSE Ok(PyMax(args, 2, args[1]))

\* func(*[float(a) for a in args]), the float mode
WrapperFloat(name, args) ==
    LET r == FloatAll(args, 1, <<>>)
        n == Len(args)
        arity == Raise("TypeError", "wrong number of arguments")
    IN  IF ~r.ok THEN r
        ELSE CASE name \in {"sin", "cos", "tan", "ln", "sqrt", "abs"} ->
                     IF n # 1 THEN arity ELSE MathFunc1(name, r.v[1])
               [] name = "log" ->
                     IF n = 1 THEN MathFunc1(name, r.v[1])
                     ELSE IF n = 2 THEN MathLog2(r.v[1], r.v[2])
                     ELSE arity
               [] name = "pow" ->
                     IF n # 2 THEN arity ELSE MathPow(r.v[1], r.v[2])
               [] name \in {"max", "min"} ->
                     IF n = 0 THEN arity
                     ELSE IF n = 1 THEN Raise("TypeError", "'float' object is not iterable")
                     ELSE IF \E i \in 1..n : r.v[i].irr THEN Ok(FloatIrr)
                     ELSE IF name = "max" THEN Ok(PyMax(r.v, 2, r.v[1]))
                     ELSE Ok(PyMin(r.v, 2, r.v[1]))

\* wrapper without its fraction branch: every function goes through float
wrapper_without_fraction_branch(name, args, mode, ctxprec, P) ==
    IF mode = "decimal" THEN WrapperDecimal(name, args, ctxprec, P)
    ELSE WrapperFloat(name, args)

\* eval_expr.make_function(name)(*args)
wrapper(name, args, mode, ctxprec, P) ==
    IF mode = "fraction" THEN WrapperFraction(name, args)
    ELSE IF mode = "decimal" THEN WrapperDecimal(name, args, ctxprec, P)
    ELSE WrapperFloat(name, args)

\* exceptions "except ZeroDivisionError" catches: decimal.DivisionByZero is
\* a subclass of ZeroDivisionError, decimal.InvalidOperation is not
IsZeroDivisionError(r) == r.exc \in {"ZeroDivisionError", "DivisionByZero"}

\* the except-branch of the BinOp case: one retry on coerced operands in
\* decimal and fraction mode, EvalError(str(e)) in float mode
CoercionFallback(op, left, right, e, mode, P) ==
    IF mode = "decimal"
    THEN LET l == _to_decimal(left, P)
             r == _to_decimal(right, P)
         IN  IF ~l.ok THEN l
             ELSE IF ~r.ok THEN r
             ELSE PyBinOp(op, l.v, r.v, P)
    ELSE IF mode = "fraction"
    THEN LET l == _to_fraction(left)
             r == _to_fraction(right)
         IN  IF ~l.ok THEN l
             ELSE IF ~r.ok THEN r
             ELSE PyBinOp(op, l.v, r.v, P)
    ELSE EvalError(e.msg)

\* the try statement of the BinOp case
ApplyBinOp(op, left, right, mode, P) ==
    LET r == PyBinOp(op, left, right, P)
    IN  IF r.ok THEN r
        ELSE IF IsZeroDivisionError(r) THEN r
        ELSE CoercionFallback(op, left, right, r, mode, P)

\* eval_expr._eval(node); EvalArgs is tuple(_eval(a) for a in node.args)
RECURSIVE _eval(_, _, _, _)
RECURSIVE EvalArgs(_, _, _, _, _, _)
\* the arguments evaluated from the right: the rightmost failure is raised
RECURSIVE EvalArgs_from_the_right(_, _, _, _, _, _)
EvalArgs_from_the_right(args, i, acc, mode, ctxprec, P) ==
    IF i > Len(args) THEN Ok(acc)
    ELSE LET r == _eval(args[i], mode, ctxprec, P)
             rest == EvalArgs_from_the_right(args, i + 1,
                         IF r.ok THEN Append(acc, r.v) ELSE acc, mode, ctxprec, P)
         IN  IF ~rest.ok THEN rest ELSE IF r.ok THEN rest ELSE r

EvalArgs(args, i, acc, mode, ctxprec, P) ==
    IF i > Len(args) THEN Ok(acc)
    ELSE LET r == _eval(args[i], mode, ctxprec, P)
         IN  IF r.ok THEN EvalArgs(args, i + 1, Append(acc, r.v), mode, ctxprec, P)
             ELSE r

_eval(node, mode, ctxprec, P) ==
    CASE node.k = "Constant" ->
            IF node.kind \in {"int", "bool", "float"}
            THEN convert_number(ConstantValue(node), mode, P)
            ELSE EvalError("Nur Zahlen als Konstanten erlaubt")
      [] node.k = "BinOp" ->
            IF node.op \notin OPS THEN EvalError("Nicht unterstuetzter Operator")
            ELSE LET left == _eval(node.left, mode, ctxprec, P)
                 IN  IF ~left.ok THEN left
                     ELSE LET right == _eval(node.right, mode, ctxprec, P)
                          IN  IF ~right.ok THEN right
                              ELSE ApplyBinOp(node.op, left.v, right.v, mode, P)
      [] node.k = "UnaryOp" ->
            IF node.op \notin OPS THEN EvalError("Nicht unterstuetzter Unary-Operator")
            ELSE LET x == _eval(node.operand, mode, ctxprec, P)
                 IN  IF ~x.ok THEN x
                     ELSE IF node.op = "USub" THEN Ok(PyNeg(x.v, P))
                     ELSE x
      [] node.k = "Call" ->
            IF node.func.k # "Name" THEN EvalError("Nur einfache Funktionsaufrufe erlaubt")
            ELSE IF node.func.id \notin _MATH_FUNCS THEN EvalError("Unbekannte Funktion")
            ELSE LET args == EvalArgs(node.args, 1, <<>>, mode, ctxprec, P)
                 IN  IF ~args.ok THEN args
                     ELSE wrapper(node.func.id, args.v, mode, ctxprec, P)
      [] node.k = "Name" -> convert_const(node.id, mode, P)
      [] OTHER -> EvalError("Ungueltiger Ausdruck")

None == 0

\* eval_expr(expr, mode, precision) with the thread's decimal context at P
\* digits; ctx is a copy of that context with ctx.prec = precision
eval_expr(expr, mode, precision, P) ==
    IF mode \notin {"float", "decimal", "fraction"} THEN EvalError("Unbekannter Modus")
    ELSE LET ctxprec == IF precision = None THEN DefaultPrec ELSE precision
             tree == ast_parse(expr)
         IN  IF ~tree.ok THEN EvalError("Syntaxfehler")
             ELSE IF tree.v.k # "Expression" THEN EvalError("Nur Ausdruecke erlaubt")
             ELSE _eval(tree.v.body, mode, ctxprec, P)

\* ------------------------------------------------------- auto_detect_mode
\* A text is the sequence of its characters.
IsDigit(ch) == ch \in {"0", "1", "2", "3", "4", "5", "6", "7", "8", "9"}

\* expr.replace(" ", "")
RemoveSpaces(expr) == SelectSeq(expr, LAMBDA ch : ch # " ")

\* sub in expr
Contains(expr, sub) ==
    \E i \in 1..(Len(expr) - Len(sub) + 1) : SubSeq(expr, i, i + Len(sub) - 1) = sub

\* the positions of "/" in expr
Slashes(expr) == {i \in 1..Len(expr) : expr[i] = "/"}

\* expr.split("/")[0] and expr.split("/")[1] of a text with a "/"
SplitPart0(expr) ==
    LET i == CHOOSE k \in Slashes(expr) : \A j \in Slashes(expr) : k <= j
    IN  SubSeq(expr, 1, i - 1)

SplitPart1(expr) ==
    LET i == CHOOSE k \in Slashes(expr) : \A j \in Slashes(expr) : k <= j
        later == {k \in Slashes(expr) : k > i}
        j == IF later = {} THEN Len(expr) + 1
             ELSE CHOOSE k \in later : \A m \in later : k <= m
    IN  SubSeq(expr, i + 1, j - 1)

float_funcs ==
    {<<"s", "i", "n">>, <<"c", "o", "s">>, <<"t", "a", "n">>, <<"l", "o", "g">>,
     <<"l", "n">>, <<"s", "q", "r", "t">>}

\* int(parts[0][-1]); int(parts[1][0]) raises nothing
DigitsAroundSlash(expr) ==
    LET p0 == SplitPart0(expr)
        p1 == SplitPart1(expr)
    IN  /\ Len(p0) > 0
        /\ IsDigit(p0[Len(p0)])
        /\ Len(p1) > 0
        /\ IsDigit(p1[1])

\* all(ch.isdigit() or ch in "+-*/() " for ch in expr)
OnlyArithmeticChars(expr) ==
    \A i \in 1..Len(expr) :
        IsDigit(expr[i]) \/ expr[i] \in {"+", "-", "*", "/", "(", ")", " "}

\* the text without its last rule: digits and operators alone decide nothing
auto_detect_mode_without_charset_rule(text) ==
    LET expr == RemoveSpaces(text)
    IN  IF Contains(expr, <<".">>) THEN "decimal"
        ELSE IF \E f \in float_funcs : Contains(expr, f) THEN "decimal"
        ELSE IF /\ Contains(expr, <<"/">>)
                /\ ~Contains(expr, <<"/", "/">>)
                /\ DigitsAroundSlash(expr)
             THEN "fraction"
        ELSE "float"

auto_detect_mode(text) ==
    LET expr == RemoveSpaces(text)
    IN  IF Contains(expr, <<".">>) THEN "decimal"
        ELSE IF \E f \in float_funcs : Contains(expr, f) THEN "decimal"
        ELSE IF /\ Contains(expr, <<"/">>)
                /\ ~Contains(expr, <<"/", "/">>)
                /\ DigitsAroundSlash(expr)
             THEN "fraction"
        ELSE IF OnlyArithmeticChars(expr) THEN "fraction"
        ELSE "float"

\* ------------------------------------------------------------------ inputs
IntLits == {Num(c) : c \in 0..MaxInt}

FltLits == {Flt(5, -1), Flt(1, -1)}

Leaves ==
    IntLits \cup FltLits
    \cup {Name("pi"), Name("x"), BoolLit(TRUE), StrLit, ListNode}

Atoms ==
    Leaves
    \cup {UnaryOp("USub", l) : l \in IntLits \cup {Flt(5, -1)}}
    \cup {UnaryOp("UAdd", Num(1)), UnaryOp("Not", Num(1))}

BinOpNames == {"Add", "Sub", "Mult", "Div", "FloorDiv", "Mod", "Pow", "BitOr"}

\* a op b
FlatExprs == {BinOp(op, a, b) : op \in BinOpNames, a, b \in Atoms}

FuncNames == _MATH_FUNCS \cup {"foo", "__import__"}

ArgExprs ==
    {Num(0), Num(1), Num(2), UnaryOp("USub", Num(1)), Flt(5, -1), StrLit,
     BinOp("Div", Num(1), Num(0))}

ArgLists ==
    {<<>>} \cup {<<a>> : a \in ArgExprs} \cup {<<a, b>> : a, b \in ArgExprs}

\* f(), f(a), f(a, b), a call with a keyword argument, a computed callee
CallExprs ==
    {Call(Name(f), args, 0) : f \in FuncNames, args \in ArgLists}
    \cup {Call(Name(f), <<Num(1), Num(2)>>, 1) : f \in {"max", "min", "pow"}}
    \cup {Call(Attribute(Name("x")), <<Num(1)>>, 0)}

\* subexpressions placed under one more operator
Inner ==
    {BinOp("Div", Num(1), Num(0)), BinOp("Div", Num(1), Num(3)),
     BinOp("Pow", Num(2), Flt(5, -1)),
     BinOp("Pow", UnaryOp("USub", Num(2)), Flt(5, -1)),
     BinOp("FloorDiv", Num(3), Num(2)),
     Call(Name("sin"), <<Num(0)>>, 0), Call(Name("sqrt"), <<Num(2)>>, 0),
     Call(Name("foo"), <<Num(1)>>, 0)}

Outer == {Num(0), Num(1), Num(2), Name("x"), StrLit, ListNode}

NestedExprs ==
    {BinOp(op, t, a) : op \in {"Add", "Div", "Mod"}, t \in Inner, a \in Outer}
    \cup {BinOp(op, a, t) : op \in {"Add", "Div", "Mod"}, t \in Inner, a \in Outer}

Exprs == Atoms \cup FlatExprs \cup CallExprs \cup NestedExprs \cup {Invalid, Attribute(Name("x"))}

Precisions == {None} \cup 1..MaxPrec

\* the (mode, precision) arguments: the precision matters in decimal mode only
ModeArgs ==
    {<<"float", None>>, <<"fraction", None>>, <<"auto", None>>}
    \cup {<<"decimal", p>> : p \in Precisions}

\* the characters the texts are made of
Alphabet == {"1", "2", ".", "/", "%", "+", " ", "l", "n", "x"}

TextsOfLen(n) == [1..n -> Alphabet]

\* every text of at most MaxTextLen characters, and the texts of the examples
Texts ==
    UNION {TextsOfLen(n) : n \in 0..MaxTextLen}
    \cup {<<"3", ".", "1", "4">>, <<"1", "/", "2">>, <<"2", "+", "2">>,
          <<"5", "%", "3">>, <<"s", "i", "n", "(", "0", ")">>,
          <<"x", "/", "1", "/", "2">>, <<"1", "/", "2", "/", "x">>}

\* finite Decimals and Fractions handed to the conversions
DecimalInputs == {DecV(sg, c, e) : sg \in {0, 1}, c \in 0..(4 * MaxInt), e \in -2..1}

FractionInputs == {FracV(Q(n, d)) : n \in (-MaxInt)..MaxInt, d \in 1..(MaxInt + 1)}

\* ------------------------------------------------------------ state machine
VARIABLES
    getcontext_prec,   \* decimal.getcontext().prec of the thread
    call,              \* the last call made: function and arguments
    outcome,           \* what that call returned or raised
    earlier,           \* an earlier eval_expr call and its outcome, kept by the caller
    display,           \* CalculatorApp.display: the text of the entry
    mode_label,        \* CalculatorApp.mode_label: the mode after "Modus: "
    history,           \* CalculatorApp.history
    history_window,    \* CalculatorApp.history_window: "None", "open", "destroyed"
    history_listbox    \* the rows of CalculatorApp.history_listbox

evaluator == <<getcontext_prec, call, outcome, earlier>>

gui == <<display, mode_label, history, history_window, history_listbox>>

vars == <<evaluator, gui>>

NoneV == [t |-> "NoneType"]

\* ctx = getcontext() without the copy: ctx.prec = precision sets the
\* precision of the thread's context
getcontext_after_without_copy(mode, precision, P) ==
    IF mode # "decimal" THEN P
    ELSE IF precision = None THEN DefaultPrec
    ELSE precision

\* the thread's context after eval_expr: ctx is a copy, ctx.prec = precision
\* is set on the copy
getcontext_after(mode, precision, P) == P

Init ==
    /\ getcontext_prec = DefaultPrec
    /\ call = [fn |-> "none"]
    /\ outcome = Ok(NoneV)
    /\ earlier = [fn |-> "none"]
    /\ display = <<>>
    /\ mode_label = "auto"
    /\ history = <<>>
    /\ history_window = "None"
    /\ history_listbox = <<>>

\* a caller evaluates an expression
EvalExpr ==
    /\ call.fn = "none"
    /\ \E expr \in Exprs, ma \in ModeArgs :
        /\ call' = [fn |-> "eval_expr", expr |-> expr, mode |-> ma[1], precision |-> ma[2]]
        /\ outcome' = eval_expr(expr, ma[1], ma[2], getcontext_prec)
        /\ getcontext_prec' = getcontext_after(ma[1], ma[2], getcontext_prec)
        /\ UNCHANGED <<earlier, gui>>

\* _to_fraction on a Decimal
ToFraction ==
    /\ call.fn = "none"
    /\ \E value \in DecimalInputs :
        /\ call' = [fn |-> "_to_fraction", value |-> value]
        /\ outcome' = _to_fraction(value)
        /\ UNCHANGED <<getcontext_prec, earlier, gui>>

\* _to_decimal on a Fraction
ToDecimal ==
    /\ call.fn = "none"
    /\ \E value \in FractionInputs :
        /\ call' = [fn |-> "_to_decimal", value |-> value]
        /\ outcome' = _to_decimal(value, getcontext_prec)
        /\ UNCHANGED <<getcontext_prec, earlier, gui>>

\* a caller asks for the mode of a text
AutoDetectMode ==
    /\ call.fn = "none"
    /\ \E text \in Texts :
        /\ call' = [fn |-> "auto_detect_mode", expr |-> text]
        /\ outcome' = Ok(ModeStr(auto_detect_mode(text)))
        /\ UNCHANGED <<getcontext_prec, earlier, gui>>

\* the caller has used the result; the next call can be made
Return ==
    /\ call.fn # "none"
    /\ call' = [fn |-> "none"]
    /\ outcome' = Ok(NoneV)
    /\ UNCHANGED <<getcontext_prec, earlier, gui>>

Next == EvalExpr \/ ToFraction \/ ToDecimal \/ AutoDetectMode \/ Return

Spec == Init /\ [][Next]_vars

\* --------------------------------------------------------- repeated calls
\* expressions a caller evaluates more than once
RepeatExprs ==
    {Num(2), Flt(1, -1), Name("pi"), Name("x"),
     BinOp("Div", Num(1), Num(3)), BinOp("Div", Num(1), Num(0)),
     BinOp("Add", Name("pi"), Name("pi")), BinOp("Pow", Num(2), Flt(5, -1)),
     Call(Name("sqrt"), <<Num(2)>>, 0), Call(Name("max"), <<Num(1), Num(2)>>, 0),
     Call(Name("sin"), <<>>, 0)}

EvalAgain ==
    /\ call.fn = "none"
    /\ \E expr \in RepeatExprs, ma \in ModeArgs :
        /\ call' = [fn |-> "eval_expr", expr |-> expr, mode |-> ma[1], precision |-> ma[2]]
        /\ outcome' = eval_expr(expr, ma[1], ma[2], getcontext_prec)
        /\ getcontext_prec' = getcontext_after(ma[1], ma[2], getcontext_prec)
        /\ UNCHANGED <<earlier, gui>>

\* the caller keeps the call and its outcome to compare later ones with
Remember ==
    /\ call.fn = "eval_expr"
    /\ earlier' = [fn |-> "eval_expr", call |-> call, outcome |-> outcome]
    /\ call' = [fn |-> "none"]
    /\ outcome' = Ok(NoneV)
    /\ UNCHANGED <<getcontext_prec, gui>>

NextRepeat == EvalAgain \/ Remember \/ Return

SpecRepeat == Init /\ [][NextRepeat]_vars

\* ------------------------------------------------------ calculator window
\* CalculatorApp of src/cal.py.  Texts are sequences of characters; the
\* umlaut of the messages is written ue.
MaxHistory == 3

\* text.strip(): the spaces at both ends removed
RECURSIVE strip(_)
strip(text) ==
    IF text = <<>> THEN text
    ELSE IF Head(text) = " " THEN strip(Tail(text))
    ELSE IF text[Len(text)] = " " THEN strip(SubSeq(text, 1, Len(text) - 1))
    ELSE text

DigitChars == <<"0", "1", "2", "3", "4", "5", "6", "7", "8", "9">>

\* int(ch) of a digit character
DigitValue(ch) == CHOOSE k \in 0..9 : DigitChars[k + 1] = ch

\* str(n) of an int
RECURSIVE IntStr(_)
IntStr(n) ==
    IF n < 0 THEN <<"-">> \o IntStr(-n)
    ELSE IF n < 10 THEN <<DigitChars[n + 1]>>
    ELSE IntStr(n \div 10) \o <<DigitChars[(n % 10) + 1]>>

\* str(res) of an int or a Fraction
str(res) ==
    CASE res.t = "int" -> IntStr(res.n)
      [] res.t = "Fraction" /\ res.d = 1 -> IntStr(res.n)
      [] res.t = "Fraction" /\ res.d # 1 -> IntStr(res.n) \o <<"/">> \o IntStr(res.d)

OperatorOfChar ==
    [ch \in {"+", "-", "*", "/", "%"} |->
        CASE ch = "+" -> "Add" [] ch = "-" -> "Sub" [] ch = "*" -> "Mult"
          [] ch = "/" -> "Div" [] ch = "%" -> "Mod"]

\* the tree ast.parse(text, mode="eval") builds: a digit, the name x, a
\* digit, an operator and a digit; a text with a colon is no expression
parse_text(text) ==
    CASE Contains(text, <<":">>) -> Invalid
      [] text = <<>> -> Invalid
      [] Len(text) = 1 /\ IsDigit(text[1]) -> Num(DigitValue(text[1]))
      [] text = <<"x">> -> Name("x")
      [] /\ Len(text) = 3
         /\ IsDigit(text[1])
         /\ text[2] \in DOMAIN OperatorOfChar
         /\ IsDigit(text[3])
         -> BinOp(OperatorOfChar[text[2]], Num(DigitValue(text[1])), Num(DigitValue(text[3])))

\* "Fehler: Division durch Null"
DivisionMessage ==
    <<"F", "e", "h", "l", "e", "r", ":", " ", "D", "i", "v", "i", "s", "i",
    "o", "n", " ", "d", "u", "r", "c", "h", " ", "N", "u", "l", "l">>

\* "ungueltig: "
InvalidPrefix == <<"u", "n", "g", "u", "e", "l", "t", "i", "g", ":", " ">>

\* "ungueltig"
InvalidMessage == <<"u", "n", "g", "u", "e", "l", "t", "i", "g">>

\* str(e) of the EvalError raised for the texts above
EvalErrorText(msg) ==
    CASE msg = "Syntaxfehler" -> <<"S", "y", "n", "t", "a", "x", "f", "e", "h", "l", "e", "r">>
      [] msg = "Unbekannter Name" ->
            <<"U", "n", "b", "e", "k", "a", "n", "n", "t", "e", "r", " ", "N", "a",
            "m", "e", ":", " ", "x">>

ModeChars(mode) ==
    CASE mode = "float" -> <<"f", "l", "o", "a", "t">>
      [] mode = "decimal" -> <<"d", "e", "c", "i", "m", "a", "l">>
      [] mode = "fraction" -> <<"f", "r", "a", "c", "t", "i", "o", "n">>

\* f"[{mode}] {expr} = {res}"
HistoryRow(entry) ==
    <<"[">> \o ModeChars(entry[3]) \o <<"]", " ">> \o entry[1]
    \o <<" ", "=", " ">> \o entry[2]

\* update_history_listbox() on the history h with the window in state w
ListboxAfterUpdate(h, w, listbox) ==
    IF w # "open" THEN listbox
    ELSE [i \in 1..Len(h) |-> HistoryRow(h[i])]

\* the texts typed into the entry
TypedTexts ==
    {<<>>, <<" ">>, <<"1", "/", "2">>, <<" ", "2", "+", "2">>, <<"1", "/", "0">>,
     <<"x">>}

\* the user edits the entry
TypeText ==
    \E text \in TypedTexts :
        /\ display' = text
        /\ UNCHANGED <<evaluator, mode_label, history, history_window, history_listbox>>

clear ==
    /\ display' = <<>>
    /\ mode_label' = "auto"
    /\ UNCHANGED <<evaluator, history, history_window, history_listbox>>

\* what calculate computes from the text of the entry: the stripped text,
\* the mode and the result of eval_expr
Calculation(text) ==
    LET expr == strip(text)
        mode == auto_detect_mode(expr)
    IN  [expr |-> expr, mode |-> mode,
         res |-> eval_expr(parse_text(expr), mode, DefaultPrec, getcontext_prec)]

calculate ==
    \E c \in {Calculation(display)} :
        /\ Len(history) < MaxHistory
        /\ c.expr # <<>>
        /\ mode_label' = c.mode
        /\ IF c.res.ok
           THEN /\ history' = Append(history, <<c.expr, str(c.res.v), c.mode>>)
                /\ history_listbox' =
                       ListboxAfterUpdate(history', history_window, history_listbox)
                /\ display' = str(c.res.v)
           ELSE /\ display' =
                       IF IsZeroDivisionError(c.res) THEN DivisionMessage
                       ELSE IF c.res.exc = "EvalError"
                            THEN InvalidPrefix \o EvalErrorText(c.res.msg)
                       ELSE InvalidMessage
                /\ UNCHANGED <<history, history_listbox>>
        /\ UNCHANGED <<evaluator, history_window>>

\* the history button: a window that exists is only lifted
open_history_window ==
    /\ history_window # "open"
    /\ history_window' = "open"
    /\ history_listbox' = ListboxAfterUpdate(history, "open", history_listbox)
    /\ UNCHANGED <<evaluator, display, mode_label, history>>

\* the user closes the history window
CloseHistoryWindow ==
    /\ history_window = "open"
    /\ history_window' = "destroyed"
    /\ history_listbox' = <<>>
    /\ UNCHANGED <<evaluator, display, mode_label, history>>

\* a double click on the row selection[0] == row of the listbox
on_history_double_click(row) ==
    /\ history_window = "open"
    /\ row \in 0..(Len(history_listbox) - 1)
    /\ LET index == Len(history) - 1 - row
           entry == history[index + 1]
       IN  /\ display' = entry[1]
           /\ mode_label' = entry[3]
    /\ UNCHANGED <<evaluator, history, history_window, history_listbox>>

DoubleClick == \E row \in 0..(MaxHistory - 1) : on_history_double_click(row)

NextHistory ==
    TypeText \/ clear \/ calculate \/ open_history_window \/ CloseHistoryWindow
    \/ DoubleClick

SpecHistory == Init /\ [][NextHistory]_vars

\* ------------------------------------------------------------- error kinds
\* The kind of a failure, read off the exception eval_expr lets out: the
\* EvalError messages of the raise statements, and ZeroDivisionError with its
\* subclass decimal.DivisionByZero.  Any other exception is unclassified.
UnsupportedMessages ==
    {"Nur Ausdruecke erlaubt", "Nur Zahlen als Konstanten erlaubt",
     "Nicht unterstuetzter Operator", "Nicht unterstuetzter Unary-Operator",
     "Nur einfache Funktionsaufrufe erlaubt", "Ungueltiger Ausdruck"}

ErrorKind(r) ==
    IF IsZeroDivisionError(r) THEN "DivisionByZero"
    ELSE IF r.exc # "EvalError" THEN "Unclassified"
    ELSE IF r.msg = "Syntaxfehler" THEN "SyntaxError"
    ELSE IF r.msg \in UnsupportedMessages THEN "UnsupportedConstruct"
    ELSE IF r.msg = "Unbekannter Name" THEN "UnknownName"
    ELSE IF r.msg = "Unbekannte Funktion" THEN "UnknownFunction"
    ELSE IF r.msg = "Funktion nicht im Fraction-Modus unterstuetzt"
         THEN "DomainUnsupportedFunction"
    ELSE IF r.msg = "pow mit nicht-ganzzahligem Exponenten im Fraction-Modus nicht erlaubt"
         THEN "NonIntegerExponentError"
    ELSE IF r.msg = "Unbekannter Modus" THEN "UnknownMode"
    ELSE "EvaluationError"

Modes == {"float", "decimal", "fraction"}

\* the state is the return of an eval_expr call with a valid mode
Evaluated == call.fn = "eval_expr" /\ call.mode \in Modes

ArithOps == {"Add", "Sub", "Mult", "Div", "FloorDiv", "Mod", "Pow"}

\* the node itself is outside the whitelisted grammar
ForbiddenNode(node) ==
    \/ node.k \notin {"Constant", "Name", "BinOp", "UnaryOp", "Call"}
    \/ node.k = "Constant" /\ node.kind \notin {"int", "float"}
    \/ node.k = "BinOp" /\ node.op \notin ArithOps
    \/ node.k = "UnaryOp" /\ node.op \notin {"USub", "UAdd"}
    \/ node.k = "Call" /\ (node.func.k # "Name" \/ node.keywords > 0)

\* some node of the tree is outside the whitelisted grammar
RECURSIVE HasForbidden(_)
HasForbidden(node) ==
    \/ ForbiddenNode(node)
    \/ node.k = "BinOp" /\ (HasForbidden(node.left) \/ HasForbidden(node.right))
    \/ node.k = "UnaryOp" /\ HasForbidden(node.operand)
    \/ node.k = "Call" /\ \E i \in 1..Len(node.args) : HasForbidden(node.args[i])

\* the tree is built from the whitelisted grammar only: numeric literals,
\* pi and e, the seven binary operators, unary + and -, calls of a bare
\* identifier with positional arguments
RECURSIVE InGrammar(_)
InGrammar(node) ==
    /\ ~ForbiddenNode(node)
    /\ node.k = "Name" => node.id \in DOMAIN _CONSTS
    /\ node.k = "BinOp" => InGrammar(node.left) /\ InGrammar(node.right)
    /\ node.k = "UnaryOp" => InGrammar(node.operand)
    /\ node.k = "Call" => \A i \in 1..Len(node.args) : InGrammar(node.args[i])

\* _eval of a subexpression under the arguments of the current call
SubEval(node) ==
    _eval(node, call.mode,
          IF call.precision = None THEN DefaultPrec ELSE call.precision,
          getcontext_prec)

\* the value is the zero of its numeric type
IsZeroValue(v) ==
    \/ IsExactNum(v) /\ v.n = 0
    \/ v.t = "Decimal" /\ DecIsZero(v)

\* ------------------------------------------------------------------ claims
\* C1: an expression with a construct outside the whitelisted grammar, at any
\* position, fails with SyntaxError or UnsupportedConstruct; no other error
\* kind raised by another part of the expression is reported instead, and no
\* value is returned.
C1_RejectedBeforeEvaluation ==
    (Evaluated /\ HasForbidden(call.expr)) =>
        (~outcome.ok /\ ErrorKind(outcome) \in {"SyntaxError", "UnsupportedConstruct"})

\* C2: every expression for which eval_expr returns a value lies inside the
\* whitelisted grammar; a boolean literal and a call with a keyword argument
\* are never evaluated to a value.
C2_ValuesOnlyInsideGrammar ==
    (Evaluated /\ outcome.ok) => InGrammar(call.expr)

\* C3: in every mode, l / r, l // r and l % r with r evaluating to zero fail
\* with DivisionByZero (also for a zero dividend and for %).
C3_DivisionByZeroInEveryMode ==
    (/\ Evaluated
     /\ call.expr.k = "BinOp"
     /\ call.expr.op \in {"Div", "FloorDiv", "Mod"}
     /\ SubEval(call.expr.left).ok
     /\ SubEval(call.expr.right).ok
     /\ IsZeroValue(SubEval(call.expr.right).v))
    => (~outcome.ok /\ ErrorKind(outcome) = "DivisionByZero")

\* both operands of the binary operation at the root evaluate to a value
OperandsOk ==
    /\ call.expr.k = "BinOp"
    /\ SubEval(call.expr.left).ok
    /\ SubEval(call.expr.right).ok

\* pow(a, b) at the root with both arguments evaluating to a value
PowCallOk ==
    /\ call.expr.k = "Call"
    /\ call.expr.func = Name("pow")
    /\ call.expr.keywords = 0
    /\ Len(call.expr.args) = 2
    /\ SubEval(call.expr.args[1]).ok
    /\ SubEval(call.expr.args[2]).ok

IsFrac(v) == v.t = "Fraction"

NonIntegerExponent == ~outcome.ok /\ ErrorKind(outcome) = "NonIntegerExponentError"

\* base ** k is defined: not a zero base with a negative exponent
PowDefined(base, k) == base.n # 0 \/ k.n >= 0

\* C4: in fraction mode a ** b and pow(a, b) fail with
\* NonIntegerExponentError when b is not an integer, and give the exact
\* rational power when it is.
C4_FractionPowerNeedsIntegerExponent ==
    (Evaluated /\ call.mode = "fraction") =>
        /\ (/\ OperandsOk
            /\ call.expr.op = "Pow"
            /\ IsFrac(SubEval(call.expr.left).v)
            /\ IsFrac(SubEval(call.expr.right).v))
           => LET base == SubEval(call.expr.left).v
                  exp == SubEval(call.expr.right).v
              IN  IF exp.d # 1 THEN NonIntegerExponent
                  ELSE PowDefined(base, exp)
                       => outcome = Ok(FracV(QPowInt(QOf(base), exp.n)))
        /\ (/\ PowCallOk
            /\ IsFrac(SubEval(call.expr.args[1]).v)
            /\ IsFrac(SubEval(call.expr.args[2]).v))
           => LET base == SubEval(call.expr.args[1]).v
                  exp == SubEval(call.expr.args[2]).v
              IN  IF exp.d # 1 THEN NonIntegerExponent
                  ELSE PowDefined(base, exp)
                       => outcome = Ok(FracV(QPowInt(QOf(base), exp.n)))

\* integer literals combined with + - * % ** and unary signs
RECURSIVE ArithOnly(_)
ArithOnly(node) ==
    \/ node.k = "Constant" /\ node.kind = "int"
    \/ node.k = "UnaryOp" /\ node.op \in {"USub", "UAdd"} /\ ArithOnly(node.operand)
    \/ /\ node.k = "BinOp"
       /\ node.op \in {"Add", "Sub", "Mult", "Mod", "Pow"}
       /\ ArithOnly(node.left)
       /\ ArithOnly(node.right)

\* the rational a tracked finite value denotes
NumValue(v) == IF v.t = "Decimal" THEN DecQ(v) ELSE QOf(v)

IsTracked(v) ==
    \/ IsExactNum(v)
    \/ v.t = "Decimal" /\ v.sp = "fin"

\* a and b agree within the precision of a float: |a - b| <= |b| / 2^(MantBits-1)
NumClose(a, b) ==
    ~QLess(QAbs(b), QMul(QAbs(QSub(a, b)), Q(IPow(2, MantBits - 1), 1)))

\* the same expression evaluated in mode m
InMode(m) == eval_expr(call.expr, m, call.precision, getcontext_prec)

\* C5: an arithmetic-only expression without decimal point and without '/'
\* yields numerically equal results in float, decimal and fraction mode.
C5_ModesAgreeOnIntegerArithmetic ==
    (Evaluated /\ ArithOnly(call.expr) /\ outcome.ok) =>
        \A m \in Modes :
            /\ InMode(m).ok
            /\ IsTracked(InMode(m).v)
            /\ IsTracked(outcome.v)
            /\ NumClose(NumValue(InMode(m).v), NumValue(outcome.v))

\* C6: in decimal mode with precision p, a Decimal produced by a binary
\* operator or a function has at most p significant digits, whatever the
\* precision of the thread's context.
C6_DecimalResultsUseCallPrecision ==
    (/\ Evaluated
     /\ call.mode = "decimal"
     /\ call.precision # None
     /\ call.expr.k \in {"BinOp", "Call"}
     /\ outcome.ok
     /\ outcome.v.t = "Decimal")
    => DecDigits(outcome.v) <= call.precision

\* min(...) or max(...) at the root, in decimal mode, over a non-empty list
\* of arguments that evaluate to finite Decimals
MinMaxCall(name) ==
    /\ Evaluated
    /\ call.mode = "decimal"
    /\ call.expr.k = "Call"
    /\ call.expr.func = Name(name)
    /\ Len(call.expr.args) > 0
    /\ \A i \in 1..Len(call.expr.args) :
          /\ SubEval(call.expr.args[i]).ok
          /\ IsTracked(SubEval(call.expr.args[i]).v)

ArgValues == {SubEval(call.expr.args[i]).v : i \in 1..Len(call.expr.args)}

\* C7: in decimal mode min returns the smallest and max the largest of its
\* arguments.
C7_DecimalMinMax ==
    /\ MinMaxCall("max") =>
          /\ outcome.ok
          /\ outcome.v \in ArgValues
          /\ \A a \in ArgValues : ~DecLess(outcome.v, a)
    /\ MinMaxCall("min") =>
          /\ outcome.ok
          /\ outcome.v \in ArgValues
          /\ \A a \in ArgValues : ~DecLess(a, outcome.v)

\* C8: in fraction mode a literal with a decimal point becomes the exact
\* fraction its decimal digits denote.
C8_FractionLiteralIsExact ==
    (/\ Evaluated
     /\ call.mode = "fraction"
     /\ call.expr.k = "Constant"
     /\ call.expr.kind = "float")
    => outcome = Ok(FracV(QTen(call.expr.c, call.expr.e)))

\* C9: _to_fraction of a finite Decimal d is the fraction equal to d, sign
\* included.
C9_ToFractionIsExact ==
    (call.fn = "_to_fraction" /\ call.value.t = "Decimal" /\ call.value.sp = "fin")
    => outcome = Ok(FracV(DecQ(call.value)))

\* the first application of the operator at the root fails with an error
\* other than a division by zero
FirstApplicationFails ==
    /\ Evaluated
    /\ OperandsOk
    /\ call.expr.op \in ArithOps
    /\ LET r == PyBinOp(call.expr.op, SubEval(call.expr.left).v,
                        SubEval(call.expr.right).v, getcontext_prec)
       IN  ~r.ok /\ ~IsZeroDivisionError(r)

\* the one retry on the operands coerced into the domain of the mode
Retry ==
    LET l == SubEval(call.expr.left).v
        r == SubEval(call.expr.right).v
        cl == IF call.mode = "decimal" THEN _to_decimal(l, getcontext_prec) ELSE _to_fraction(l)
        cr == IF call.mode = "decimal" THEN _to_decimal(r, getcontext_prec) ELSE _to_fraction(r)
    IN  IF ~cl.ok THEN cl
        ELSE IF ~cr.ok THEN cr
        ELSE PyBinOp(call.expr.op, cl.v, cr.v, getcontext_prec)

\* C10: when the first application fails (not by a division by zero), decimal
\* and fraction mode retry once on coerced operands; if the retry fails too,
\* or the mode is float, eval_expr fails with the generic EvaluationError.
C10_CoercionFallback ==
    FirstApplicationFails =>
        IF call.mode # "float" /\ Retry.ok THEN outcome = Retry
        ELSE ~outcome.ok /\ ErrorKind(outcome) = "EvaluationError"

\* the error kinds of the taxonomy
Taxonomy ==
    {"SyntaxError", "UnsupportedConstruct", "UnknownName", "UnknownFunction",
     "DomainUnsupportedFunction", "NonIntegerExponentError", "DivisionByZero",
     "EvaluationError"}

\* C11: eval_expr ends with a value or with one error of the taxonomy; no
\* unclassified exception escapes it, also for a whitelisted function called
\* with the wrong number of arguments or outside its mathematical domain.
C11_EveryFailureIsClassified ==
    Evaluated => (outcome.ok \/ ErrorKind(outcome) \in Taxonomy)

\* a call, at the root, of the function name with positional arguments that
\* all evaluate to a value
CallArgsOk(names) ==
    /\ call.expr.k = "Call"
    /\ call.expr.func.k = "Name"
    /\ call.expr.func.id \in names
    /\ \A i \in 1..Len(call.expr.args) : SubEval(call.expr.args[i]).ok

UnsupportedInFraction == {"sin", "cos", "tan", "log", "ln", "sqrt"}

\* the values of the arguments of the call at the root, in order
ArgSeq == [i \in 1..Len(call.expr.args) |-> SubEval(call.expr.args[i]).v]

\* the call at the root has the number of arguments its function takes
ArityOk ==
    LET n == Len(call.expr.args)
        f == call.expr.func.id
    IN  IF f = "abs" THEN n = 1
        ELSE IF f = "pow" THEN n = 2
        ELSE n >= 1

\* C12: in fraction mode sin, cos, tan, log, ln and sqrt on evaluated
\* arguments always fail with DomainUnsupportedFunction; abs, max, min and pow
\* never do, and on Fractions they return a Fraction (pow for an integer
\* exponent and a defined power).
C12_FractionModeFunctions ==
    (Evaluated /\ call.mode = "fraction") =>
        /\ CallArgsOk(UnsupportedInFraction) =>
              (~outcome.ok /\ ErrorKind(outcome) = "DomainUnsupportedFunction")
        /\ CallArgsOk({"abs", "max", "min", "pow"}) =>
              /\ outcome.ok \/ ErrorKind(outcome) # "DomainUnsupportedFunction"
              /\ (/\ ArityOk
                  /\ \A i \in 1..Len(ArgSeq) : IsFrac(ArgSeq[i])
                  /\ call.expr.func.id = "pow" =>
                        (ArgSeq[2].d = 1 /\ PowDefined(ArgSeq[1], ArgSeq[2])))
                 => (outcome.ok /\ IsFrac(outcome.v))

C12_Witness ==
    /\ Evaluated
    /\ call.mode = "fraction"
    /\ CallArgsOk({"sqrt"})
    /\ Len(call.expr.args) = 1
    /\ ~outcome.ok
    /\ ErrorKind(outcome) = "DomainUnsupportedFunction"

\* the value type of a mode
ModeType(m) ==
    IF m = "fraction" THEN "Fraction" ELSE IF m = "decimal" THEN "Decimal" ELSE "float"

\* C13: the result of a successful evaluation has the value type of the
\* selected mode.
C13_DomainClosure ==
    (Evaluated /\ outcome.ok) => outcome.v.t = ModeType(call.mode)

\* a call of a bare identifier at the root
RootCall == Evaluated /\ call.expr.k = "Call" /\ call.expr.func.k = "Name"

\* the arguments of the call at the root that fail
FailingArgs == {i \in 1..Len(call.expr.args) : ~SubEval(call.expr.args[i]).ok}

\* the leftmost of them
Leftmost == CHOOSE i \in FailingArgs : \A j \in FailingArgs : i <= j

\* C17: an unknown callee is reported as UnknownFunction whatever the
\* arguments do; for a known callee the error of the leftmost failing argument
\* is reported; the function's own error is raised only when every argument
\* has a value.
C17_CallErrorPrecedence ==
    RootCall =>
        IF call.expr.func.id \notin _MATH_FUNCS
        THEN ~outcome.ok /\ ErrorKind(outcome) = "UnknownFunction"
        ELSE /\ FailingArgs # {} => outcome = SubEval(call.expr.args[Leftmost])
             /\ (/\ ~outcome.ok
                 /\ ErrorKind(outcome) \in {"DomainUnsupportedFunction", "NonIntegerExponentError"})
                => FailingArgs = {}

\* max('a', 1/0) and its like: two failing arguments with different errors
C17_Witness ==
    /\ RootCall
    /\ call.expr.func.id \in _MATH_FUNCS
    /\ Len(call.expr.args) = 2
    /\ FailingArgs = {1, 2}
    /\ SubEval(call.expr.args[1]) # SubEval(call.expr.args[2])
    /\ outcome = SubEval(call.expr.args[1])

\* the state is the return of an auto_detect_mode call
Detected == call.fn = "auto_detect_mode"

\* a "/" of the text that is not part of a "//", with a digit right before
\* and right after it
LoneSlashBetweenDigits(text) ==
    \E i \in 2..(Len(text) - 1) :
        /\ text[i] = "/"
        /\ IsDigit(text[i - 1])
        /\ IsDigit(text[i + 1])

\* digits, the characters of + - * / // % **, parentheses and spaces
ArithmeticChars == {"+", "-", "*", "/", "%", "(", ")", " "}

\* the five rules, the first that matches deciding
FiveRules(text) ==
    IF Contains(text, <<".">>) THEN "decimal"
    ELSE IF \E f \in float_funcs : Contains(text, f) THEN "decimal"
    ELSE IF LoneSlashBetweenDigits(text) THEN "fraction"
    ELSE IF \A i \in 1..Len(text) : IsDigit(text[i]) \/ text[i] \in ArithmeticChars
         THEN "fraction"
    ELSE "float"

\* C15: auto_detect_mode is the five-rule first-match-wins classifier; a text
\* of digits and % alone is classified fraction.
C15_AutoDetectIsFiveRules ==
    Detected => outcome = Ok(ModeStr(FiveRules(call.expr)))

\* C16: auto_detect_mode classifies "3.14" as decimal, "1/2" as fraction and
\* "2+2" as float.
C16_AutoDetectExamples ==
    Detected =>
        /\ call.expr = <<"3", ".", "1", "4">> => outcome = Ok(ModeStr("decimal"))
        /\ call.expr = <<"1", "/", "2">> => outcome = Ok(ModeStr("fraction"))
        /\ call.expr = <<"2", "+", "2">> => outcome = Ok(ModeStr("float"))

\* C16 as amended: "3.14" is classified decimal, "1/2" fraction and "2+2",
\* made of digits and an operator only, fraction.
C16_AutoDetectExamplesAmended ==
    Detected =>
        /\ call.expr = <<"3", ".", "1", "4">> => outcome = Ok(ModeStr("decimal"))
        /\ call.expr = <<"1", "/", "2">> => outcome = Ok(ModeStr("fraction"))
        /\ call.expr = <<"2", "+", "2">> => outcome = Ok(ModeStr("fraction"))

C16_Witness ==
    /\ Detected
    /\ call.expr = <<"2", "+", "2">>
    /\ outcome = Ok(ModeStr("fraction"))

HistoryRows(h) == [i \in 1..Len(h) |-> HistoryRow(h[i])]

\* one step of the calculator as the claim describes it
HistoryStep ==
    /\ history_window' = "open" => history_listbox' = HistoryRows(history')
    /\ \A row \in 0..(Len(history_listbox) - 1) :
          on_history_double_click(row) =>
              /\ display' = history[row + 1][1]
              /\ mode_label' = history[row + 1][3]
    /\ history' # history =>
          \E c \in {Calculation(display)} :
              /\ c.expr # <<>>
              /\ c.res.ok
              /\ history' = Append(history, <<c.expr, str(c.res.v), c.mode>>)

\* C18: the history window lists the entries in the order they were appended
\* (row i shows history[i]); a double click on row i puts the expression and
\* the mode of that displayed entry into the display and the mode label; only
\* a successful calculation appends an entry.
C18_History == [][HistoryStep]_vars

====
